---- MODULE Spec2Model ----
(***************************************************************************)
(* Model of yatry's Map (src/yatry/utils/models/map.py): a registry of     *)
(* locations held as tree nodes, a symmetric road/fare registry, and trip  *)
(* planning over them.  Tree, SymmetricKeyDict and find_route are imported *)
(* by map.py from modules that are modelled after their description in the *)
(* design document (sections 4.1 - 4.3).                                   *)
(***************************************************************************)
EXTENDS Integers, Sequences, FiniteSets, TLC

\* ---------------------------------------------------------------- bounds
NumLocations == 3          \* size of the Location enumeration
MaxRoads == 2              \* successful add_road calls explored per behaviour
MaxRouteLen == 1           \* longest caller-supplied route for get_fare_on_route
RootLocation == 1          \* the location handed to the constructor

Locations == 1..NumLocations
None == 0                  \* Python's None for a node's parent link

VARIABLES
    _locations,   \* Map._locations : dict[Location, MapNode] (a node is its key in nodes)
    nodes,        \* the heap of Tree objects: node |-> [value, parent, children]
    _roads,       \* Map._roads : SymmetricKeyDict[Location, float]
    _root,        \* Map._root  : the node of the root location
    res           \* the last call made on the map and what it returned / raised

vars == <<_locations, nodes, _roads, _root, res>>

\* ------------------------------------------------------------ small helpers
Reverse(s) == [i \in 1..Len(s) |-> s[Len(s) + 1 - i]]

Last(s) == s[Len(s)]

RECURSIVE SeqSum(_)
SeqSum(s) == IF s = <<>> THEN 0 ELSE s[1] + SeqSum(Tail(s))

\* zip(route[:-1], route[1:])
ZipPairs(route) ==
    IF Len(route) < 2 THEN <<>>
    ELSE [i \in 1..(Len(route) - 1) |-> <<route[i], route[i + 1]>>]

\* every successful add_road appends one entry to one node's children
RECURSIVE CountChildren(_, _)
CountChildren(ns, ids) ==
    IF ids = {} THEN 0
    ELSE LET n == CHOOSE n \in ids : TRUE
         IN  Len(ns[n].children) + CountChildren(ns, ids \ {n})

NumRoadCalls(ns) == CountChildren(ns, DOMAIN ns)

\* ------------------------------------------------------------------- Tree
\* Tree(value=location): a fresh node without parent and without children
Tree(value) == [value |-> value, parent |-> None, children |-> <<>>]

\* The identity of a new Tree object is any token not in use.  The node made
\* for a location is named after the location; a further node made for the
\* same location gets the next free name location + k * NumLocations.
NewNode(ns, location) ==
    LET names == {location + k * NumLocations : k \in 0..Cardinality(DOMAIN ns)}
        free  == {n \in names : n \notin DOMAIN ns}
    IN  CHOOSE n \in free : \A m \in free : n <= m

\* Tree.add_child: appends the child to self's children and sets the child's
\* parent link to self.  The precondition "child has no parent" is unchecked.
add_child(ns, self, child) ==
    LET withChild == [ns EXCEPT ![self].children = Append(@, child)]
    IN  [withChild EXCEPT ![child].parent = self]

\* Tree.path_to_root: follows parent links from n until none remains.
\* The walk does not end when the links run into a cycle: <<>> stands for
\* that outcome (a finished walk always holds at least n itself).
RECURSIVE Walk(_, _, _)
Walk(ns, n, acc) ==
    IF \E i \in 1..Len(acc) : acc[i] = n THEN <<>>
    ELSE IF ns[n].parent = None THEN Append(acc, n)
    ELSE Walk(ns, ns[n].parent, Append(acc, n))

path_to_root(ns, n) == Walk(ns, n, <<>>)

\* --------------------------------------------------------- SymmetricKeyDict
\* the unordered pair {a, b} is stored under one canonical ordering
CanonKey(a, b) == IF a <= b THEN <<a, b>> ELSE <<b, a>>

symm_set(d, a, b, value) ==
    [k \in (DOMAIN d) \cup {CanonKey(a, b)} |->
        IF k = CanonKey(a, b) THEN value ELSE d[k]]

symm_get(d, a, b) ==
    IF CanonKey(a, b) \in DOMAIN d
    THEN [status |-> "ok", fare |-> d[CanonKey(a, b)]]
    ELSE [status |-> "KeyNotFound", fare |-> 0]

\* ------------------------------------------------------------- RouteFinder
\* number of trailing nodes the two root-ward chains share
RECURSIVE CommonSuffix(_, _)
CommonSuffix(p, q) ==
    IF p = <<>> \/ q = <<>> THEN 0
    ELSE IF Last(p) # Last(q) THEN 0
    ELSE 1 + CommonSuffix(SubSeq(p, 1, Len(p) - 1), SubSeq(q, 1, Len(q) - 1))

\* find_route(start, end) over tree nodes: start .. lca .. end
find_route(ns, start, end) ==
    LET ps == path_to_root(ns, start)
        pe == path_to_root(ns, end)
        k  == CommonSuffix(ps, pe)
    IN  IF ps = <<>> \/ pe = <<>>
        THEN [status |-> "Diverges", route |-> <<>>]
        ELSE IF k = 0
        THEN [status |-> "DisconnectedNodes", route |-> <<>>]
        ELSE [status |-> "ok",
              route  |-> SubSeq(ps, 1, Len(ps) - k + 1)
                         \o Reverse(SubSeq(pe, 1, Len(pe) - k))]

\* --------------------------------------------------------------- Passenger
\* the Passenger dataclass: name, src, dst, t_dep_bracket
Passenger(name, src, dst, t_dep_bracket) ==
    [name |-> name, src |-> src, dst |-> dst, t_dep_bracket |-> t_dep_bracket]

Passengers == {Passenger("p", s, d, <<0, 1>>) : s \in Locations, d \in Locations}

\* --------------------------------------------------------------------- Map
\* register_location without the membership test: a fresh node every call
register_location_always(locs, ns, location) ==
    [locations |-> (location :> NewNode(ns, location)) @@ locs,
     nodes     |-> (NewNode(ns, location) :> Tree(location)) @@ ns]

\* Map.register_location on the pair (registry, heap)
register_location(locs, ns, location) ==
    IF location \notin DOMAIN locs
    THEN [locations |-> (location :> NewNode(ns, location)) @@ locs,
          nodes     |-> (NewNode(ns, location) :> Tree(location)) @@ ns]
    ELSE [locations |-> locs, nodes |-> ns]

\* add_road storing the fare under [loc_from, loc_from]
add_road_wrongkey(loc_from, loc_to, fare) ==
    IF loc_from \notin DOMAIN _locations \/ loc_to \notin DOMAIN _locations
    THEN [status |-> "UnknownLocation", nodes |-> nodes, roads |-> _roads]
    ELSE [status |-> "ok",
          nodes  |-> add_child(nodes, _locations[loc_from], _locations[loc_to]),
          roads  |-> symm_set(_roads, loc_from, loc_from, fare)]

\* Map.add_road: both registry lookups, then add_child, then the fare store
add_road(loc_from, loc_to, fare) ==
    IF loc_from \notin DOMAIN _locations \/ loc_to \notin DOMAIN _locations
    THEN [status |-> "UnknownLocation", nodes |-> nodes, roads |-> _roads]
    ELSE [status |-> "ok",
          nodes  |-> add_child(nodes, _locations[loc_from], _locations[loc_to]),
          roads  |-> symm_set(_roads, loc_from, loc_to, fare)]

\* Map.get_road_fare
get_road_fare(loc_1, loc_2) == symm_get(_roads, loc_1, loc_2)

\* _find_route handing the two nodes to find_route the wrong way round
_find_route_swapped(loc_start, loc_end) ==
    IF loc_start \notin DOMAIN _locations \/ loc_end \notin DOMAIN _locations
    THEN [status |-> "UnknownLocation", route |-> <<>>]
    ELSE LET r == find_route(nodes, _locations[loc_end], _locations[loc_start])
         IN  IF r.status # "ok" THEN r
             ELSE [status |-> "ok",
                   route  |-> [i \in 1..Len(r.route) |-> nodes[r.route[i]].value]]

\* _find_route looking loc_end up with a default: an unregistered end yields
\* the route as far as it is known
_find_route_default_end(loc_start, loc_end) ==
    IF loc_start \notin DOMAIN _locations
    THEN [status |-> "UnknownLocation", route |-> <<>>]
    ELSE IF loc_end \notin DOMAIN _locations
    THEN [status |-> "ok", route |-> <<loc_start>>]
    ELSE LET r == find_route(nodes, _locations[loc_start], _locations[loc_end])
         IN  IF r.status # "ok" THEN r
             ELSE [status |-> "ok",
                   route  |-> [i \in 1..Len(r.route) |-> nodes[r.route[i]].value]]

\* Map._find_route
_find_route(loc_start, loc_end) ==
    IF loc_start \notin DOMAIN _locations \/ loc_end \notin DOMAIN _locations
    THEN [status |-> "UnknownLocation", route |-> <<>>]
    ELSE LET r == find_route(nodes, _locations[loc_start], _locations[loc_end])
         IN  IF r.status # "ok" THEN r
             ELSE [status |-> "ok",
                   route  |-> [i \in 1..Len(r.route) |-> nodes[r.route[i]].value]]

\* get_fare_on_route zipping route[:-2] with route[1:]: the last road is left out
get_fare_on_route_short(route) ==
    LET pairs == ZipPairs(SubSeq(route, 1, Len(route) - 1))
        fares == [i \in 1..Len(pairs) |-> symm_get(_roads, pairs[i][1], pairs[i][2])]
    IN  IF \E i \in 1..Len(pairs) : fares[i].status # "ok"
        THEN [status |-> "KeyNotFound", fare |-> 0]
        ELSE [status |-> "ok",
              fare   |-> SeqSum([i \in 1..Len(pairs) |-> fares[i].fare])]

\* Map.get_fare_on_route
get_fare_on_route(route) ==
    LET pairs == ZipPairs(route)
        fares == [i \in 1..Len(pairs) |-> symm_get(_roads, pairs[i][1], pairs[i][2])]
    IN  IF \E i \in 1..Len(pairs) : fares[i].status # "ok"
        THEN [status |-> "KeyNotFound", fare |-> 0]
        ELSE [status |-> "ok",
              fare   |-> SeqSum([i \in 1..Len(pairs) |-> fares[i].fare])]

\* make_trip pricing the route without its first location
make_trip_tail(loc_start, loc_end) ==
    LET r == _find_route(loc_start, loc_end)
    IN  IF r.status # "ok"
        THEN [status |-> r.status, route |-> <<>>, fare |-> 0]
        ELSE LET f == get_fare_on_route(Tail(r.route))
             IN  IF f.status # "ok"
                 THEN [status |-> f.status, route |-> <<>>, fare |-> 0]
                 ELSE [status |-> "ok", route |-> r.route, fare |-> f.fare]

\* Map.make_trip
make_trip(loc_start, loc_end) ==
    LET r == _find_route(loc_start, loc_end)
    IN  IF r.status # "ok"
        THEN [status |-> r.status, route |-> <<>>, fare |-> 0]
        ELSE LET f == get_fare_on_route(r.route)
             IN  IF f.status # "ok"
                 THEN [status |-> f.status, route |-> <<>>, fare |-> 0]
                 ELSE [status |-> "ok", route |-> r.route, fare |-> f.fare]

\* Map.get_passenger_route_fare: reads passenger.source and passenger.destination
get_passenger_route_fare(passenger) ==
    IF "source" \notin DOMAIN passenger \/ "destination" \notin DOMAIN passenger
    THEN [status |-> "AttributeError", route |-> <<>>, fare |-> 0]
    ELSE make_trip(passenger.source, passenger.destination)

\* ------------------------------------------------------------------ actions
Result(op, args, status, route, fare) ==
    [op |-> op, args |-> args, status |-> status, route |-> route, fare |-> fare]

\* The caller prices the k-th road 2^(k-1): every road has its own fare and
\* every set of roads its own total.
RECURSIVE Pow2(_)
Pow2(n) == IF n = 0 THEN 1 ELSE 2 * Pow2(n - 1)

NextFare == Pow2(NumRoadCalls(nodes))

\* Map.__init__(root)
MapInit(root) ==
    LET reg == register_location(<<>>, <<>>, root)
    IN  /\ _roads = <<>>
        /\ _locations = reg.locations
        /\ nodes = reg.nodes
        /\ _root = reg.locations[root]
        /\ res = Result("__init__", <<root>>, "ok", <<>>, 0)

Init == MapInit(RootLocation)

RegisterLocation ==
    \E location \in Locations :
        LET reg == register_location(_locations, nodes, location)
        IN  /\ _locations' = reg.locations
            /\ nodes' = reg.nodes
            /\ res' = Result("register_location", <<location>>, "ok", <<>>, 0)
            /\ UNCHANGED <<_roads, _root>>

AddRoad ==
    /\ NumRoadCalls(nodes) < MaxRoads
    /\ \E loc_from \in Locations, loc_to \in Locations :
        LET r == add_road(loc_from, loc_to, NextFare)
        IN  /\ nodes' = r.nodes
            /\ _roads' = r.roads
            /\ res' = Result("add_road", <<loc_from, loc_to>>, r.status, <<>>, NextFare)
            /\ UNCHANGED <<_locations, _root>>

GetRoadFare ==
    \E loc_1 \in Locations, loc_2 \in Locations :
        LET r == get_road_fare(loc_1, loc_2)
        IN  /\ res' = Result("get_road_fare", <<loc_1, loc_2>>, r.status, <<>>, r.fare)
            /\ UNCHANGED <<_locations, nodes, _roads, _root>>

FindRoute ==
    \E loc_start \in Locations, loc_end \in Locations :
        LET r == _find_route(loc_start, loc_end)
        IN  /\ res' = Result("find_route", <<loc_start, loc_end>>, r.status, r.route, 0)
            /\ UNCHANGED <<_locations, nodes, _roads, _root>>

RoutesUpTo(n) == UNION {[1..k -> Locations] : k \in 0..n}

GetFareOnRoute ==
    \E route \in RoutesUpTo(MaxRouteLen) :
        LET r == get_fare_on_route(route)
        IN  /\ res' = Result("get_fare_on_route", route, r.status, <<>>, r.fare)
            /\ UNCHANGED <<_locations, nodes, _roads, _root>>

MakeTrip ==
    \E loc_start \in Locations, loc_end \in Locations :
        LET r == make_trip(loc_start, loc_end)
        IN  /\ res' = Result("make_trip", <<loc_start, loc_end>>, r.status, r.route, r.fare)
            /\ UNCHANGED <<_locations, nodes, _roads, _root>>

GetPassengerRouteFare ==
    \E passenger \in Passengers :
        LET r == get_passenger_route_fare(passenger)
        IN  /\ res' = Result("get_passenger_route_fare",
                             <<passenger.src, passenger.dst>>, r.status, r.route, r.fare)
            /\ UNCHANGED <<_locations, nodes, _roads, _root>>

\* every operation of the Map
Next ==
    \/ RegisterLocation
    \/ AddRoad
    \/ GetRoadFare
    \/ FindRoute
    \/ GetFareOnRoute
    \/ MakeTrip
    \/ GetPassengerRouteFare

Spec == Init /\ [][Next]_vars

\* building the map and reading single road fares
NextRoads ==
    \/ RegisterLocation
    \/ AddRoad
    \/ GetRoadFare

SpecRoads == Init /\ [][NextRoads]_vars

\* building the map and asking for routes
NextRoute ==
    \/ RegisterLocation
    \/ AddRoad
    \/ FindRoute

SpecRoute == Init /\ [][NextRoute]_vars

\* building the map and planning trips
NextTrip ==
    \/ RegisterLocation
    \/ AddRoad
    \/ MakeTrip

SpecTrip == Init /\ [][NextTrip]_vars

\* ------------------------------------------------------------ vocabulary
Registered(l) == l \in DOMAIN _locations

NodeOf(l) == _locations[l]

\* the nodes that list n among their children
ParentsListing(n) ==
    {p \in DOMAIN nodes : \E i \in 1..Len(nodes[p].children) : nodes[p].children[i] = n}

\* start and end are both linked, through parent links, to one parentless node
Connected(start, end) ==
    /\ Registered(start) /\ Registered(end)
    /\ path_to_root(nodes, NodeOf(start)) # <<>>
    /\ path_to_root(nodes, NodeOf(end)) # <<>>
    /\ Last(path_to_root(nodes, NodeOf(start))) = Last(path_to_root(nodes, NodeOf(end)))

\* x and y are the two ends of a parent-child edge made by add_road
Edge(x, y) ==
    /\ Registered(x) /\ Registered(y)
    /\ \/ nodes[NodeOf(x)].parent = NodeOf(y) /\ NodeOf(y) \in ParentsListing(NodeOf(x))
       \/ nodes[NodeOf(y)].parent = NodeOf(x) /\ NodeOf(x) \in ParentsListing(NodeOf(y))
    /\ get_road_fare(x, y).status = "ok"

NoRepeats(route) ==
    \A i \in 1..Len(route), j \in 1..Len(route) : route[i] = route[j] => i = j

\* the sum of get_road_fare over each consecutive pair of a route
RECURSIVE RoadFareSum(_)
RoadFareSum(route) ==
    IF Len(route) < 2 THEN 0
    ELSE get_road_fare(route[1], route[2]).fare + RoadFareSum(Tail(route))

\* ------------------------------------------------------------------ claims

\* C1: after any sequence of register_location and add_road calls the
\* parent/child relation is a tree: no node is listed as a child of two
\* different nodes (or twice), and following parent links from any node never
\* comes back to a node already visited.
C1_TreeInvariant ==
    \A n \in DOMAIN nodes :
        /\ Cardinality(ParentsListing(n)) <= 1
        /\ path_to_root(nodes, n) # <<>>

\* C2: a successful add_road(A, B, fare) makes get_road_fare(A, B) and
\* get_road_fare(B, A) both return that fare and leaves what is returned for
\* every other pair as it was; no other call changes the registry.  So a pair
\* always reads, in either argument order, as the fare last stored for it.
C2_FareSymmetric ==
    [][(res'.op = "add_road" \/ _roads' # _roads) =>
         /\ res'.op = "add_road"
         /\ \A a \in Locations, b \in Locations :
              /\ (get_road_fare(a, b))' = (get_road_fare(b, a))'
              /\ IF res'.status = "ok" /\ {a, b} = {res'.args[1], res'.args[2]}
                 THEN (get_road_fare(a, b))' = [status |-> "ok", fare |-> res'.fare]
                 ELSE (get_road_fare(a, b))' = get_road_fare(a, b)]_vars

\* a pair was priced twice and is then read against the order it was added in
C2_Witness ==
    /\ res.op = "get_road_fare" /\ res.status = "ok"
    /\ res.args[1] # res.args[2]
    /\ Registered(res.args[1]) /\ Registered(res.args[2])
    /\ nodes[NodeOf(res.args[1])].parent = NodeOf(res.args[2])
    /\ NumRoadCalls(nodes) = 2
    /\ Cardinality(DOMAIN _roads) = 1
    /\ res.fare = 2

\* C3: for start and end connected to the same root, find_route returns a
\* route that begins with start, ends with end, whose consecutive locations
\* are the two ends of a parent-child edge made by add_road, and in which no
\* location occurs twice.
C3_RouteIsTreePath ==
    (res.op = "find_route" /\ Connected(res.args[1], res.args[2])) =>
        /\ res.status = "ok"
        /\ Len(res.route) >= 1
        /\ res.route[1] = res.args[1]
        /\ Last(res.route) = res.args[2]
        /\ \A i \in 1..(Len(res.route) - 1) : Edge(res.route[i], res.route[i + 1])
        /\ NoRepeats(res.route)

\* a route that climbs to a common ancestor and descends again
C3_Witness ==
    /\ res.op = "find_route" /\ res.status = "ok"
    /\ Len(res.route) = 3
    /\ nodes[NodeOf(res.route[1])].parent = NodeOf(res.route[2])
    /\ nodes[NodeOf(res.route[3])].parent = NodeOf(res.route[2])

\* C4: for start and end connected to the same root, make_trip does not fail
\* with KeyNotFound and its fare is the sum of get_road_fare over each
\* consecutive pair of its route.
C4_TripFareIsSum ==
    (res.op = "make_trip" /\ Connected(res.args[1], res.args[2])) =>
        /\ res.status = "ok"
        /\ \A i \in 1..(Len(res.route) - 1) :
               get_road_fare(res.route[i], res.route[i + 1]).status = "ok"
        /\ res.fare = RoadFareSum(res.route)

\* a trip over two roads: fare(A, C) = fare(A, B) + fare(B, C) = 1 + 2
C4_Witness ==
    /\ res.op = "make_trip" /\ res.status = "ok"
    /\ Len(res.route) = 3
    /\ res.fare = 3

\* C5: for every registered X, find_route(X, X) is <<X>>,
\* get_fare_on_route(<<X>>) is 0 and make_trip(X, X) is (<<X>>, 0).
C5_SelfTrip ==
    \A X \in Locations :
        Registered(X) =>
            /\ (res.op = "find_route" /\ res.args = <<X, X>>) =>
                   (res.status = "ok" /\ res.route = <<X>>)
            /\ (res.op = "get_fare_on_route" /\ res.args = <<X>>) =>
                   (res.status = "ok" /\ res.fare = 0)
            /\ (res.op = "make_trip" /\ res.args = <<X, X>>) =>
                   (res.status = "ok" /\ res.route = <<X>> /\ res.fare = 0)

\* C6: for A and B connected to the same root, the route of make_trip(A, B)
\* is the reverse of the route of make_trip(B, A) and both fares are equal.
C6_TripSymmetric ==
    (res.op = "make_trip" /\ Connected(res.args[1], res.args[2])) =>
        LET back == make_trip(res.args[2], res.args[1])
        IN  /\ res.status = "ok"
            /\ back.status = "ok"
            /\ res.route = Reverse(back.route)
            /\ res.fare = back.fare

\* a trip from one child of a node to another child of it
C6_Witness ==
    /\ res.op = "make_trip" /\ res.status = "ok"
    /\ Len(res.route) = 3
    /\ res.route[1] > res.route[3]
    /\ make_trip(res.route[3], res.route[1]).route = Reverse(res.route)

\* C7: add_road(from, to, fare) on a to whose node already has a parent fails
\* with InvalidTreeOperation and leaves the tree links and the road registry
\* as they were.
C7_SecondParentRejected ==
    [][(/\ res'.op = "add_road"
        /\ Registered(res'.args[1]) /\ Registered(res'.args[2])
        /\ nodes[NodeOf(res'.args[2])].parent # None)
       => (/\ res'.status = "InvalidTreeOperation"
           /\ UNCHANGED <<nodes, _roads>>)]_vars

\* C8: register_location(L) of an already registered L changes nothing: L
\* keeps its node, the heap of nodes (parent links, children) and the fares
\* are as before; and every registered location has exactly one node.
C8_RegisterIdempotent ==
    [][/\ (res'.op = "register_location" /\ Registered(res'.args[1]))
            => UNCHANGED <<_locations, nodes, _roads, _root>>
       /\ \A l \in DOMAIN _locations' :
            {n \in DOMAIN nodes' : nodes'[n].value = l} = {_locations'[l]}]_vars

\* a location with a parent and a child is registered once more
C8_Witness ==
    /\ res.op = "register_location"
    /\ Cardinality(DOMAIN nodes) = Cardinality(DOMAIN _locations)
    /\ nodes[NodeOf(res.args[1])].parent # None
    /\ nodes[NodeOf(res.args[1])].children # <<>>
    /\ _roads # <<>>

\* C9: find_route with an unregistered start or end fails with
\* UnknownLocation, returns no route, registers nothing and changes nothing;
\* make_trip on the same locations fails the same way.
C9_UnknownLocation ==
    [][\A a \in Locations, b \in Locations :
         (/\ res'.op = "find_route" /\ res'.args = <<a, b>>
          /\ ~(Registered(a) /\ Registered(b)))
         => (/\ res'.status = "UnknownLocation"
             /\ res'.route = <<>>
             /\ (make_trip(a, b))' =
                    [status |-> "UnknownLocation", route |-> <<>>, fare |-> 0]
             /\ UNCHANGED <<_locations, nodes, _roads, _root>>)]_vars

\* a route is asked from a registered location to one never registered
C9_Witness ==
    /\ res.op = "find_route" /\ res.status = "UnknownLocation"
    /\ Registered(res.args[1]) /\ ~Registered(res.args[2])
    /\ _roads # <<>>

\* C10: get_passenger_route_fare(passenger) returns what make_trip returns for
\* the source and destination the Passenger record carries (src and dst).
C10_PassengerTrip ==
    res.op = "get_passenger_route_fare" =>
        LET trip == make_trip(res.args[1], res.args[2])
        IN  /\ res.status = trip.status
            /\ res.route = trip.route
            /\ res.fare = trip.fare

====
